---- MODULE Spec2Model ----
(***************************************************************************)
(* State-machine model of SharedMemory::ShareMemoryManager                 *)
(* (src/ShareMemoryCPP/ShareMemoryManager.{h,cpp}): one shared segment     *)
(* (header + payload region) guarded by a named Win32 mutex ("the gate"),  *)
(* a producer instance whose main thread writes, reads and clears, and a   *)
(* consumer instance whose main thread attaches, registers a callback and  *)
(* starts/stops a polling thread (MonitorThreadProc).                      *)
(***************************************************************************)
EXTENDS Integers, Sequences, FiniteSets, TLC

\* ---------------------------------------------------------------- bounds
MaxFrames == 2        \* writes that pass the occupancy test in one run
MaxCorrupt == 1       \* payload bytes changed from outside the program
MaxCkLen == 7         \* longest payload of the checksum specification
Capacity == 8         \* payload capacity: the size given to the constructor

\* ------------------------------------------------------- program constants
MAGIC == 305419896    \* 0x12345678
SizeofFloat == 4
StEmpty == 0
StWriting == 1
StReady == 2
StError == 3
IMAGE == 0
POINTCLOUD == 1
HEIGHTMAP == 2
Limb == 65536         \* 2^16: a uint32_t is kept as <<high, low>> 16-bit halves

\* ------------------------------------------------------------ arithmetic
\* TLC's integers are 32-bit signed, so a uint32_t travels as the pair
\* <<v \div 2^16, v % 2^16>> and a size_t as the same pair with an
\* unbounded high part.
U32(n) == <<(n \div Limb) % Limb, n % Limb>>

Add32(a, b) ==
  LET lo == a[2] + b[2]
  IN  <<(a[1] + b[1] + (lo \div Limb)) % Limb, lo % Limb>>

\* x * y for two 16-bit halves, as a pair (the exact 32-bit product).
MulLimb(x, y) ==
  LET p1 == x * (y % 256)
      p2 == x * (y \div 256)
  IN  Add32(U32(p1), <<(p2 \div 256) % Limb, (p2 % 256) * 256>>)

\* uint32_t * uint32_t: the product modulo 2^32.
Mul32(a, b) ==
  LET cross == (MulLimb(a[1], b[2])[2] + MulLimb(a[2], b[1])[2]) % Limb
  IN  Add32(MulLimb(a[2], b[2]), <<cross, 0>>)

\* size_t * size_t on a 64-bit build: no wrap for the operands of the model.
MulSize(a, b) ==
  LET p == MulLimb(a[2], b[2])
  IN  <<a[1] * b[1] * Limb + a[1] * b[2] + a[2] * b[1] + p[1], p[2]>>

\* size > n, for a size_t pair and a small n.
SizeExceeds(s, n) == s[1] > 0 \/ s[2] > n

\* ----------------------------------------------------------------- checksum
RECURSIVE ChecksumFrom(_, _, _)
ChecksumFrom(data, i, checksum) ==
  IF i > Len(data) THEN checksum
  ELSE LET lo == checksum[2] * 33 + data[i]
           hi == checksum[1] * 33 + (lo \div Limb)
       IN  ChecksumFrom(data, i + 1, <<hi % Limb, lo % Limb>>)

\* A loop that stops one byte early.
CalculateChecksumShort(data) ==
  IF Len(data) = 0 THEN <<0, 0>>
  ELSE ChecksumFrom(SubSeq(data, 1, Len(data) - 1), 1, <<0, 0>>)

\* checksum = ((checksum << 5) + checksum) + data[i], from 0, modulo 2^32.
CalculateChecksum(data) == ChecksumFrom(data, 1, <<0, 0>>)


\* ------------------------------------------------------------------ state
VARIABLES
  hdr,              \* SharedMemoryHeader at offset 0 of the mapped segment
  payload,          \* the Capacity bytes that follow it (m_pData)
  gate,             \* the named mutex m_hMutex: its owner, and whether the
                    \* owner keeps an acquisition it never released
  m_frameId,        \* the producer instance's frame counter
  attached,         \* the consumer instance has mapped the segment (m_pBuffer)
  m_lastError,      \* per instance: the message GetLastError() returns
  m_isMonitoring,   \* consumer instance
  m_dataCallback,   \* consumer instance: "none" is an empty std::function
  m_monitorThread,  \* consumer instance: the joinable thread, or "none"
  m_callbackMutex,  \* consumer instance: owner, or "free"
  pc,               \* where each thread stands
  args,             \* arguments and locals of the main thread's write call
  success,          \* the local `success`, then the call's return value
  buffer,           \* the caller's std::vector<uint8_t>& buffer
  outs,             \* the caller's dataType, width, height
  newCb,            \* argument of a SetDataReceivedCallback call in progress
  invoking,         \* the callback a polling thread is running
  terminated,       \* std::terminate was called
  path,             \* history: the branch the last call took
  fresh,            \* history: the frame WriteData just published, untouched since
  maxPub,           \* history: largest FrameId that became Ready
  lastRead,         \* history: FrameId the last successful read found, since
                    \* the last ClearMemory
  reads,            \* history: successful reads since the last publication
  begun,            \* history: writes that passed the occupancy test
  delivered,        \* history: callback invocations for the frame last read
  stopped,          \* history: StopMonitoring returned, no StartMonitoring since
  corrupted,        \* history: payload bytes changed from outside
  ckData,           \* checksum specification: the payload
  ckStored,         \* checksum specification: the checksum the writer stored
  ckPhase           \* checksum specification: "off", "new", "stored", "mutated"

segVars == <<hdr, payload, gate, m_frameId, m_lastError>>
monVars == <<attached, m_isMonitoring, m_dataCallback, m_monitorThread,
             m_callbackMutex, newCb, invoking, terminated>>
callVars == <<pc, args, success, buffer, outs>>
histVars ==
  <<path, fresh, maxPub, lastRead, reads, begun, delivered, stopped, corrupted>>
ckVars == <<ckData, ckStored, ckPhase>>
vars == <<segVars, monVars, callVars, histVars, ckVars>>

Pollers == {"mon1", "mon2"}
Controllers == {"ctl", "ctl2"}
Callers == {"main"} \cup Pollers         \* threads that call TryReadData
Threads == Callers \cup Controllers
Instances == {"producer", "consumer"}
\* The instance whose member functions thread t runs.
InstanceOf(t) == IF t = "main" THEN "producer" ELSE "consumer"
Callbacks == {"cbA", "cbB"}
Bytes == {0, 255}                        \* the byte values the callers write

\* ------------------------------------------------------------- the inputs
DimVals == {1, 2, Limb}                  \* width and height arguments
ChannelVals == {1, 2}                    \* channels of an image
DimensionVals == {1, 2}                  \* dimensions of a point cloud
SpacingVals == {5, 7}                    \* grid spacings of a height map, in tenths
AllTypes == {IMAGE, POINTCLOUD, HEIGHTMAP, HEIGHTMAP + 1}
\* The arguments of the writes that run beside the polling thread.
FewTypes == {IMAGE, HEIGHTMAP + 1}
FewWidths == {1, Limb}
FewHeights == {1}
FewSpacings == {5}
DefaultChannels == 1
DefaultDimensions == 3

Fill(n, b) == [i \in 1..n |-> b]
PayloadsOf(n) == {Fill(n, b) : b \in Bytes}
Min(a, b) == IF a < b THEN a ELSE b

\* The size the shape stands for, as a mathematical product; products of
\* SatLimit and more are reported as SatLimit.
SatLimit == Limb \div 2
SatMul(a, b) ==
  IF a = 0 \/ b = 0 THEN 0
  ELSE IF a >= SatLimit \/ b >= SatLimit THEN SatLimit
  ELSE Min(a * b, SatLimit)
ShapeSize(type, w, h, ch) ==
  IF type = IMAGE THEN SatMul(SatMul(w, h), ch)
  ELSE SatMul(SatMul(w, h), SizeofFloat)

GateFree == [owner |-> "free", leaked |-> FALSE]

InitHeader ==
  [Magic |-> MAGIC, Status |-> StEmpty, DataSize |-> 0, Checksum |-> <<0, 0>>,
   FrameId |-> 0, DataType |-> 0, Width |-> 0, Height |-> 0, Reserved |-> 0,
   ErrorMsg |-> ""]

NoArgs ==
  [op |-> "none", dataType |-> 0, width |-> 0, height |-> 0, channels |-> 0,
   dimensions |-> 0, xSpacing |-> 0, ySpacing |-> 0, data |-> <<>>,
   dataLen |-> 0, size |-> 0]
NoOuts == [dataType |-> 0, width |-> 0, height |-> 0]
NoFrame == [valid |-> FALSE, data |-> <<>>, dataLen |-> 0, dataType |-> 0,
            width |-> 0, height |-> 0]

\* The state after both constructors and the producer's Initialize().
InitRun ==
  /\ hdr = InitHeader
  /\ payload = Fill(Capacity, 0)
  /\ gate = GateFree
  /\ m_frameId = 0
  /\ m_lastError = [i \in Instances |-> ""]
  /\ attached = FALSE
  /\ m_isMonitoring = FALSE
  /\ m_dataCallback = "none"
  /\ m_monitorThread = "none"
  /\ m_callbackMutex = "free"
  /\ pc = [t \in Threads |-> IF t \in Pollers THEN "unborn" ELSE "idle"]
  /\ args = NoArgs
  /\ success = [t \in Callers |-> FALSE]
  /\ buffer = [t \in Callers |-> <<>>]
  /\ outs = [t \in Callers |-> NoOuts]
  /\ newCb = "none"
  /\ invoking = [p \in Pollers |-> "none"]
  /\ terminated = FALSE
  /\ path = [t \in Callers |-> "none"]
  /\ fresh = NoFrame
  /\ maxPub = 0
  /\ lastRead = 0
  /\ reads = 0
  /\ begun = 0
  /\ delivered = [p \in Pollers |-> 0]
  /\ stopped = FALSE
  /\ corrupted = 0

CkOff == ckData = <<>> /\ ckStored = <<0, 0>> /\ ckPhase = "off"
Init == InitRun /\ CkOff

\* ---------------------------------------------------------------- the gate
\* WaitForSingleObject(m_hMutex, ms) returns WAIT_OBJECT_0: the caller owns it.
\* (A Win32 mutex is recursive: a wait by its owner returns at once.)
Acquire(t) == gate.owner \in {"free", t} /\ gate' = [gate EXCEPT !.owner = t]
\* ... or WAIT_TIMEOUT, after another thread kept it for the whole wait.
TimedOut(t) == gate.owner \notin {"free", "abandoned", t}
\* ... or WAIT_ABANDONED: the owner ended without releasing it, and the
\* caller is granted the ownership.
Abandoned(t) ==
  gate.owner = "abandoned" /\ gate' = [owner |-> t, leaked |-> TRUE]
\* ReleaseMutex(m_hMutex) undoes one acquisition of the owner.
Release(t) ==
  gate' = (IF gate.owner = t /\ ~gate.leaked THEN GateFree ELSE gate)

\* What a call returns when its wait did not end in WAIT_OBJECT_0 (lines
\* 136, 278, 334, 403), with a call that reports success before it.
WaitFailedReportsSuccess == TRUE
WaitFailed == FALSE

\* A step of another party on the segment ends the "just written" history.
Touch == fresh' = NoFrame

\* The call of thread t returns and t goes on at `next`; the call's locals
\* and the history of its branch end with it.
Returned(t, next) ==
  /\ pc' = [pc EXCEPT ![t] = next]
  /\ success' = [success EXCEPT ![t] = FALSE]
  /\ path' = [path EXCEPT ![t] = "none"]

\* History: the main thread's last call gave up its wait for the gate; the
\* same call made next is a retry.
Timeouts == {"wd_timeout", "hm_timeout", "cl_timeout", "rd_timeout"}
Retry(timeout) == IF path["main"] = timeout THEN "retry" ELSE "none"

\* The text a call writes to the log for the failure it ends with (lines
\* 128, 135, 143, 277, 326, 333, 341, 402, 410, 425), by the path taken.
FailureMessages(p) ==
  CASE p = "toolarge" -> {"Data size exceeds buffer capacity",
                          "Height map data too large"}
    [] p \in Timeouts -> {"Failed to acquire mutex"}
    [] p = "occupied" -> {"Memory not empty, previous data not consumed"}
    [] p = "badmagic" -> {"Invalid magic number"}
    [] p = "mismatch" -> {"Checksum mismatch"}
    [] OTHER -> {}

\* `return false` of a call of the main thread before its try block
\* (lines 124, 129, 136, 278, 327, 334, 403).
ReturnFalse ==
  /\ pc["main"] = "ret"
  /\ pc' = [pc EXCEPT !["main"] = "idle"]
  /\ success' = [success EXCEPT !["main"] = FALSE]
  /\ path' = [path EXCEPT !["main"] = IF @ \in Timeouts THEN @ ELSE "none"]
  /\ UNCHANGED <<segVars, monVars, args, buffer, outs, fresh, maxPub, lastRead, reads, begun,
                 delivered, stopped, corrupted, ckVars>>

\* ------------------------------------------------------------- WriteData
\* Lines 115-125: the size the write copies, a size_t pair; <<>> for an
\* unknown type.
WriteSize(type, w, h, ch, dims) ==
  IF type = IMAGE THEN Mul32(Mul32(U32(w), U32(h)), U32(ch))
  ELSE IF type = POINTCLOUD
    THEN MulSize(MulSize(U32(w), U32(SizeofFloat)), U32(dims))
  ELSE IF type = HEIGHTMAP
    THEN MulSize(Mul32(U32(w), U32(h)), U32(SizeofFloat))
  ELSE <<>>

\* The caller's array: its length is the shape's size, and the model keeps
\* its first Capacity bytes.
CallerData(len) == PayloadsOf(Min(len, Capacity))

\* Lines 111-130: the call, up to the wait for the gate.
WD_Call(type, w, h, ch, dims, data) ==
  LET size == WriteSize(type, w, h, ch, dims)
      bad == size = <<>>
      big == ~bad /\ SizeExceeds(size, Capacity)
  IN  /\ pc["main"] = "idle"
      /\ begun < MaxFrames
      /\ args' = IF bad \/ big THEN NoArgs
                  ELSE [op |-> "WriteData", dataType |-> type, width |-> w,
                        height |-> h, channels |-> ch, dimensions |-> dims,
                        xSpacing |-> 0, ySpacing |-> 0, data |-> data, dataLen |-> ShapeSize(type, w, h, ch),
                        size |-> size[2]]
      /\ success' = [success EXCEPT !["main"] = FALSE]
      /\ path' = [path EXCEPT !["main"] =
                    IF bad THEN "badtype" ELSE IF big THEN "toolarge"
                    ELSE Retry("wd_timeout")]
      /\ pc' = [pc EXCEPT !["main"] = IF bad \/ big THEN "ret" ELSE "wd_wait"]
      /\ fresh' = NoFrame
      /\ UNCHANGED <<segVars, monVars, buffer, outs, maxPub, lastRead, reads, begun, delivered,
                     stopped, corrupted, ckVars>>

\* Lines 133-137, WAIT_OBJECT_0.
WD_Wait ==
  /\ pc["main"] = "wd_wait"
  /\ Acquire("main")
  /\ pc' = [pc EXCEPT !["main"] = "wd_begin"]
  /\ UNCHANGED <<hdr, payload, m_frameId, m_lastError, monVars, args, success, buffer, outs,
                 histVars, ckVars>>

\* Lines 133-137, any other result: return false.
WD_Timeout ==
  /\ pc["main"] = "wd_wait"
  /\ TimedOut("main")
  /\ pc' = [pc EXCEPT !["main"] = "ret"]
  /\ path' = [path EXCEPT !["main"] = "wd_timeout"]
  /\ args' = NoArgs
  /\ success' = [success EXCEPT !["main"] = WaitFailed]
  /\ UNCHANGED <<segVars, monVars, buffer, outs, fresh,
                 maxPub, lastRead, reads, begun, delivered, stopped, corrupted, ckVars>>

\* Lines 133-137, WAIT_ABANDONED: return false, owning the gate.
WD_Abandoned ==
  /\ pc["main"] = "wd_wait"
  /\ Abandoned("main")
  /\ pc' = [pc EXCEPT !["main"] = "ret"]
  /\ path' = [path EXCEPT !["main"] = "abandoned"]
  /\ args' = NoArgs
  /\ success' = [success EXCEPT !["main"] = WaitFailed]
  /\ UNCHANGED <<hdr, payload, m_frameId, m_lastError, monVars,
                 buffer, outs, fresh, maxPub, lastRead, reads, begun, delivered, stopped,
                 corrupted, ckVars>>

\* The occupancy test of lines 142 and 340, with a looser test before it.
SlotEmptyLoose == hdr.Status # StWriting
SlotEmpty == hdr.Status = StEmpty

\* ++m_frameId of lines 150 and 356 (at most MaxFrames of them: no wrap), with a
\* counter that is not advanced, and one that starts again at 1, before it.
NextFrameIdStuck(f) == f
NextFrameIdRestarts(f) == IF f >= 1 THEN 1 ELSE f + 1
NextFrameId(f) == f + 1

\* Lines 142-156: the occupancy test, then Status = Writing and the header.
WD_Begin ==
  /\ pc["main"] = "wd_begin"
  /\ IF ~SlotEmpty
       THEN /\ path' = [path EXCEPT !["main"] = "occupied"]
            /\ pc' = [pc EXCEPT !["main"] = "wd_rel"]
            /\ UNCHANGED <<hdr, m_frameId, begun>>
       ELSE /\ m_frameId' = NextFrameId(m_frameId)
            /\ begun' = begun + 1
            /\ hdr' = [hdr EXCEPT !.Status = StWriting,
                                  !.DataSize = args.size,
                                  !.FrameId = m_frameId',
                                  !.DataType = args.dataType,
                                  !.Width = args.width,
                                  !.Height = args.height,
                                  !.Reserved = IF args.dataType = IMAGE
                                               THEN args.channels
                                               ELSE args.dimensions]
            /\ pc' = [pc EXCEPT !["main"] = "wd_copy"]
            /\ UNCHANGED path
  /\ UNCHANGED <<m_lastError,
                 payload, gate, monVars, args, success, buffer, outs, fresh,
                 maxPub, lastRead, reads, delivered, stopped, corrupted, ckVars>>

\* memcpy(dst, data, n): the bytes read from the caller's array; past its end
\* the read is out of bounds and finds any bytes.
Source(n) ==
  IF n <= Len(args.data) THEN {SubSeq(args.data, 1, n)}
  ELSE {args.data \o junk : junk \in PayloadsOf(n - Len(args.data))}

\* The payload region after the first Len(src) bytes are overwritten.
Stored(src) == src \o SubSeq(payload, Len(src) + 1, Capacity)

\* Lines 159-191: the copy, the checksum, Status = Ready.
WD_Copy ==
  /\ pc["main"] = "wd_copy"
  /\ \E src \in Source(args.size) :
       /\ payload' = Stored(src)
       /\ hdr' = [hdr EXCEPT !.Checksum = CalculateChecksum(src),
                             !.Status = StReady]
  /\ success' = [success EXCEPT !["main"] = TRUE]
  /\ path' = [path EXCEPT !["main"] = "written"]
  /\ maxPub' = IF hdr'.FrameId > maxPub THEN hdr'.FrameId ELSE maxPub
  /\ reads' = 0
  /\ UNCHANGED lastRead
  /\ fresh' = [valid |-> TRUE, data |-> args.data, dataLen |-> args.dataLen,
               dataType |-> args.dataType, width |-> args.width,
               height |-> args.height]
  /\ pc' = [pc EXCEPT !["main"] = "wd_rel"]
  /\ UNCHANGED <<gate, m_frameId, m_lastError, monVars, args, buffer, outs, begun,
                 delivered, stopped, corrupted, ckVars>>

\* Lines 199-200.
WD_Release ==
  /\ pc["main"] = "wd_rel"
  /\ Release("main")
  /\ Returned("main", "idle")
  /\ args' = NoArgs
  /\ UNCHANGED <<hdr, payload, m_frameId, m_lastError, monVars, buffer, outs, fresh, maxPub, lastRead, reads, begun,
                 delivered, stopped, corrupted, ckVars>>

\* ---------------------------------------------------- WriteHeightMapData
\* Lines 310-328 (heightData is not null; the spacings go to the log line
\* 370-379 and nowhere else).
HM_Call(w, h, xSpacing, ySpacing, data) ==
  LET size == MulSize(Mul32(U32(w), U32(h)), U32(SizeofFloat))
      big == SizeExceeds(size, Capacity)
  IN  /\ pc["main"] = "idle"
      /\ begun < MaxFrames
      /\ args' = IF big THEN NoArgs
                  ELSE [op |-> "WriteHeightMapData", dataType |-> HEIGHTMAP,
                        width |-> w, height |-> h, channels |-> 0,
                        dimensions |-> 0, xSpacing |-> xSpacing,
                        ySpacing |-> ySpacing, data |-> data,
                        dataLen |-> ShapeSize(HEIGHTMAP, w, h, 0),
                        size |-> size[2]]
      /\ success' = [success EXCEPT !["main"] = FALSE]
      /\ path' = [path EXCEPT !["main"] = IF big THEN "toolarge"
                                          ELSE Retry("hm_timeout")]
      /\ pc' = [pc EXCEPT !["main"] = IF big THEN "ret" ELSE "hm_wait"]
      /\ fresh' = NoFrame
      /\ UNCHANGED <<segVars, monVars, buffer, outs, maxPub, lastRead, reads, begun, delivered,
                     stopped, corrupted, ckVars>>

\* Lines 331-335, WAIT_OBJECT_0.
HM_Wait ==
  /\ pc["main"] = "hm_wait"
  /\ Acquire("main")
  /\ pc' = [pc EXCEPT !["main"] = "hm_begin"]
  /\ UNCHANGED <<hdr, payload, m_frameId, m_lastError, monVars, args, success, buffer, outs,
                 histVars, ckVars>>

\* Lines 331-335, any other result.
HM_Timeout ==
  /\ pc["main"] = "hm_wait"
  /\ TimedOut("main")
  /\ pc' = [pc EXCEPT !["main"] = "ret"]
  /\ path' = [path EXCEPT !["main"] = "hm_timeout"]
  /\ args' = NoArgs
  /\ success' = [success EXCEPT !["main"] = WaitFailed]
  /\ UNCHANGED <<segVars, monVars, buffer, outs, fresh,
                 maxPub, lastRead, reads, begun, delivered, stopped, corrupted, ckVars>>

\* Lines 331-335, WAIT_ABANDONED.
HM_Abandoned ==
  /\ pc["main"] = "hm_wait"
  /\ Abandoned("main")
  /\ pc' = [pc EXCEPT !["main"] = "ret"]
  /\ path' = [path EXCEPT !["main"] = "abandoned"]
  /\ args' = NoArgs
  /\ success' = [success EXCEPT !["main"] = WaitFailed]
  /\ UNCHANGED <<hdr, payload, m_frameId, m_lastError, monVars,
                 buffer, outs, fresh, maxPub, lastRead, reads, begun, delivered, stopped,
                 corrupted, ckVars>>

\* Lines 340-359: Reserved is not assigned.
HM_Begin ==
  /\ pc["main"] = "hm_begin"
  /\ IF ~SlotEmpty
       THEN /\ path' = [path EXCEPT !["main"] = "occupied"]
            /\ pc' = [pc EXCEPT !["main"] = "hm_rel"]
            /\ UNCHANGED <<hdr, m_frameId, begun>>
       ELSE /\ m_frameId' = NextFrameId(m_frameId)
            /\ begun' = begun + 1
            /\ hdr' = [hdr EXCEPT !.Status = StWriting,
                                  !.DataSize = args.size,
                                  !.FrameId = m_frameId',
                                  !.DataType = HEIGHTMAP,
                                  !.Width = args.width,
                                  !.Height = args.height]
            /\ pc' = [pc EXCEPT !["main"] = "hm_copy"]
            /\ UNCHANGED path
  /\ UNCHANGED <<m_lastError,
                 payload, gate, monVars, args, success, buffer, outs, fresh,
                 maxPub, lastRead, reads, delivered, stopped, corrupted, ckVars>>

\* Lines 362-380.
HM_Copy ==
  /\ pc["main"] = "hm_copy"
  /\ \E src \in Source(args.size) :
       /\ payload' = Stored(src)
       /\ hdr' = [hdr EXCEPT !.Checksum = CalculateChecksum(src),
                             !.Status = StReady]
  /\ success' = [success EXCEPT !["main"] = TRUE]
  /\ path' = [path EXCEPT !["main"] = "written"]
  /\ maxPub' = IF hdr'.FrameId > maxPub THEN hdr'.FrameId ELSE maxPub
  /\ reads' = 0
  /\ UNCHANGED lastRead
  /\ pc' = [pc EXCEPT !["main"] = "hm_rel"]
  /\ UNCHANGED <<gate, m_frameId, m_lastError, monVars, args, buffer, outs, fresh, begun,
                 delivered, stopped, corrupted, ckVars>>

\* Lines 388-389.
HM_Release ==
  /\ pc["main"] = "hm_rel"
  /\ Release("main")
  /\ Returned("main", "idle")
  /\ args' = NoArgs
  /\ UNCHANGED <<hdr, payload, m_frameId, m_lastError, monVars, buffer, outs, fresh, maxPub, lastRead, reads, begun,
                 delivered, stopped, corrupted, ckVars>>

\* ------------------------------------------------------------ ClearMemory
\* Lines 267-272 (the producer's m_pBuffer is set).
CL_Call ==
  /\ pc["main"] = "idle"
  /\ args' = NoArgs
  /\ success' = [success EXCEPT !["main"] = FALSE]
  /\ path' = [path EXCEPT !["main"] = Retry("cl_timeout")]
  /\ pc' = [pc EXCEPT !["main"] = "cl_wait"]
  /\ fresh' = NoFrame
  /\ UNCHANGED <<segVars, monVars, buffer, outs, maxPub, lastRead, reads, begun, delivered,
                 stopped, corrupted, ckVars>>

\* Lines 275-279, WAIT_OBJECT_0.
CL_Wait ==
  /\ pc["main"] = "cl_wait"
  /\ Acquire("main")
  /\ pc' = [pc EXCEPT !["main"] = "cl_body"]
  /\ UNCHANGED <<hdr, payload, m_frameId, m_lastError, monVars, args, success, buffer, outs,
                 histVars, ckVars>>

\* Lines 275-279, any other result.
CL_Timeout ==
  /\ pc["main"] = "cl_wait"
  /\ TimedOut("main")
  /\ pc' = [pc EXCEPT !["main"] = "ret"]
  /\ path' = [path EXCEPT !["main"] = "cl_timeout"]
  /\ success' = [success EXCEPT !["main"] = WaitFailed]
  /\ UNCHANGED <<segVars, monVars, args, buffer, outs, fresh,
                 maxPub, lastRead, reads, begun, delivered, stopped, corrupted, ckVars>>

\* Lines 275-279, WAIT_ABANDONED.
CL_Abandoned ==
  /\ pc["main"] = "cl_wait"
  /\ Abandoned("main")
  /\ pc' = [pc EXCEPT !["main"] = "ret"]
  /\ path' = [path EXCEPT !["main"] = "abandoned"]
  /\ success' = [success EXCEPT !["main"] = WaitFailed]
  /\ UNCHANGED <<hdr, payload, m_frameId, m_lastError, monVars, args,
                 buffer, outs, fresh, maxPub, lastRead, reads, begun, delivered, stopped,
                 corrupted, ckVars>>

\* The header ClearMemory leaves (lines 284-292), with one that keeps the
\* frame number before it.
ClearedHeaderKeepsFrame == [InitHeader EXCEPT !.FrameId = hdr.FrameId]
ClearedHeader == InitHeader

\* Lines 283-299.
CL_Body ==
  /\ pc["main"] = "cl_body"
  /\ hdr' = ClearedHeader
  /\ m_frameId' = 0
  /\ success' = [success EXCEPT !["main"] = TRUE]
  /\ path' = [path EXCEPT !["main"] = "cleared"]
  /\ pc' = [pc EXCEPT !["main"] = "cl_rel"]
  /\ lastRead' = 0
  /\ reads' = 0
  /\ UNCHANGED <<m_lastError,
                 payload, gate, monVars, args, buffer, outs, fresh, maxPub, begun,
                 delivered, stopped, corrupted, ckVars>>

\* Lines 306-307.
CL_Release ==
  /\ pc["main"] = "cl_rel"
  /\ Release("main")
  /\ Returned("main", "idle")
  /\ UNCHANGED <<hdr, payload, m_frameId, m_lastError, monVars, args, buffer, outs, fresh,
                 maxPub, lastRead, reads, begun, delivered, stopped, corrupted, ckVars>>

\* ------------------------------------------------------------ TryReadData
\* The consumer's threads use the consumer instance, "main" the producer's.
HasBuffer(t) == IF t = "main" THEN TRUE ELSE attached
\* Where a thread goes on when TryReadData returns; before it, a polling
\* loop that goes round without looking at the result.
AfterReadSkipsCallback(t, ok) == IF t = "main" THEN "idle" ELSE "m_loop"
AfterRead(t, ok) ==
  IF t = "main" THEN "idle" ELSE IF ok THEN "m_lock" ELSE "m_loop"

\* Lines 392-397 for a call of the main thread, with its own fresh locals
\* (the producer's m_pBuffer is set).
RD_Call ==
  /\ pc["main"] = "idle"
  /\ args' = NoArgs
  /\ success' = [success EXCEPT !["main"] = FALSE]
  /\ buffer' = [buffer EXCEPT !["main"] = <<>>]
  /\ outs' = [outs EXCEPT !["main"] = NoOuts]
  /\ path' = [path EXCEPT !["main"] = Retry("rd_timeout")]
  /\ pc' = [pc EXCEPT !["main"] = "rd_wait"]
  /\ UNCHANGED <<segVars, monVars, fresh, maxPub, lastRead, reads, begun, delivered, stopped,
                 corrupted, ckVars>>

\* Lines 400-404, WAIT_OBJECT_0.
RD_Wait(t) ==
  /\ pc[t] = "rd_wait"
  /\ Acquire(t)
  /\ pc' = [pc EXCEPT ![t] = "rd_body"]
  /\ UNCHANGED <<hdr, payload, m_frameId, m_lastError, monVars, args, success, buffer, outs,
                 histVars, ckVars>>

\* Lines 400-404, any other result.
RD_Timeout(t) ==
  /\ pc[t] = "rd_wait"
  /\ TimedOut(t)
  /\ pc' = [pc EXCEPT ![t] = IF t = "main" THEN "ret" ELSE "m_loop"]
  /\ path' = [path EXCEPT ![t] = IF t = "main" THEN "rd_timeout" ELSE "none"]
  /\ success' = [success EXCEPT ![t] = WaitFailed]
  /\ UNCHANGED <<segVars, monVars, args, buffer, outs, fresh,
                 maxPub, lastRead, reads, begun, delivered, stopped, corrupted, ckVars>>

\* Lines 400-404, WAIT_ABANDONED.
RD_Abandoned(t) ==
  /\ pc[t] = "rd_wait"
  /\ Abandoned(t)
  /\ pc' = [pc EXCEPT ![t] = IF t = "main" THEN "ret" ELSE "m_loop"]
  /\ path' = [path EXCEPT ![t] = IF t = "main" THEN "abandoned" ELSE "none"]
  /\ success' = [success EXCEPT ![t] = WaitFailed]
  /\ UNCHANGED <<hdr, payload, m_frameId, m_lastError, monVars, args,
                 buffer, outs, fresh, maxPub, lastRead, reads, begun, delivered, stopped,
                 corrupted, ckVars>>

\* Lines 419-420: the caller's buffer is resized and filled once the frame
\* is found Ready; before it, a read that copies whatever the status is.
BufferAlwaysCopied(t, ready, copy) == [buffer EXCEPT ![t] = copy]
BufferAfterRead(t, ready, copy) ==
  IF ready THEN [buffer EXCEPT ![t] = copy] ELSE buffer

\* Lines 423-435: the status a read leaves, Empty once the checksum matched;
\* before it, a read that frees the slot whenever it found a frame, and one
\* that never frees it.
StatusFreedOnMismatch(ready, match) == IF ready THEN StEmpty ELSE hdr.Status
StatusKeptAfterRead(ready, match) == hdr.Status
StatusAfterRead(ready, match) == IF match THEN StEmpty ELSE hdr.Status

\* Lines 406-455.
RD_Body(t) ==
  LET copy == SubSeq(payload, 1, hdr.DataSize)
      valid == hdr.Magic = MAGIC
      ready == valid /\ hdr.Status = StReady
      match == ready /\ CalculateChecksum(copy) = hdr.Checksum
  IN  /\ pc[t] = "rd_body"
      /\ buffer' = BufferAfterRead(t, ready, copy)
      /\ outs' = IF match
                   THEN [outs EXCEPT ![t] = [dataType |-> hdr.DataType,
                                            width |-> hdr.Width,
                                            height |-> hdr.Height]]
                   ELSE outs
      /\ hdr' = [hdr EXCEPT !.Status = StatusAfterRead(ready, match)]
      /\ success' = [success EXCEPT ![t] = match]
      /\ path' = [path EXCEPT ![t] =
                    IF ~valid THEN "badmagic"
                    ELSE IF ~ready THEN "notready"
                    ELSE IF ~match THEN "mismatch" ELSE "read"]
      /\ delivered' = IF match /\ t \in Pollers
                        THEN [delivered EXCEPT ![t] = 0] ELSE delivered
      /\ fresh' = IF t = "main" \/ match THEN NoFrame ELSE fresh
      /\ lastRead' = IF match THEN hdr.FrameId ELSE lastRead
      /\ reads' = IF match THEN reads + 1 ELSE reads
      /\ pc' = [pc EXCEPT ![t] = "rd_rel"]
      /\ UNCHANGED <<payload, gate, m_frameId, m_lastError, monVars, args, maxPub, begun, stopped,
                     corrupted, ckVars>>

\* Lines 462-463; the main thread's buffer and output variables are the
\* call's own and end with it.
RD_Release(t) ==
  /\ pc[t] = "rd_rel"
  /\ Release(t)
  /\ Returned(t, AfterRead(t, success[t]))
  /\ buffer' = IF t = "main" THEN [buffer EXCEPT ![t] = <<>>] ELSE buffer
  /\ outs' = IF t = "main" THEN [outs EXCEPT ![t] = NoOuts] ELSE outs
  /\ UNCHANGED <<hdr, payload, m_frameId, m_lastError, monVars, args, fresh, maxPub, lastRead, reads, begun,
                 delivered, stopped, corrupted, ckVars>>

\* ------------------------------------------------------ MonitorThreadProc
\* Lines 495-496 and 394-397: the loop test, then the call of TryReadData;
\* line 502 (the sleep) brings the thread back here.
M_Loop(p) ==
  /\ pc[p] = "m_loop"
  /\ IF ~m_isMonitoring
       THEN /\ pc' = [pc EXCEPT ![p] = "exited"]
            /\ UNCHANGED <<success, path>>
       ELSE /\ success' = [success EXCEPT ![p] = FALSE]
            /\ UNCHANGED path
            /\ pc' = [pc EXCEPT ![p] = IF HasBuffer(p) THEN "rd_wait"
                                        ELSE "m_loop"]
  /\ UNCHANGED <<segVars, monVars, args, buffer, outs, fresh, maxPub, lastRead, reads, begun,
                 delivered, stopped, corrupted, ckVars>>

\* Line 497: std::lock_guard on m_callbackMutex.
M_Lock(p) ==
  /\ pc[p] = "m_lock"
  /\ m_callbackMutex = "free"
  /\ m_callbackMutex' = p
  /\ pc' = [pc EXCEPT ![p] = "m_check"]
  /\ UNCHANGED <<segVars, attached, m_isMonitoring, m_dataCallback,
                 m_monitorThread, newCb, invoking, terminated, args, success,
                 buffer, outs, histVars, ckVars>>

\* Line 498: the test of m_dataCallback; before it, a loop that calls
\* without the test.
CallbackAssumed == TRUE
CallbackSet == m_dataCallback # "none"

\* Lines 498-501: the callback is called, or there is none.
M_Check(p) ==
  /\ pc[p] = "m_check"
  /\ IF CallbackSet
       THEN /\ invoking' = [invoking EXCEPT ![p] = m_dataCallback]
            /\ delivered' = [delivered EXCEPT ![p] = @ + 1]
            /\ pc' = [pc EXCEPT ![p] = "m_incb"]
            /\ UNCHANGED m_callbackMutex
       ELSE /\ m_callbackMutex' =
                 (IF m_callbackMutex = p THEN "free" ELSE m_callbackMutex)
            /\ pc' = [pc EXCEPT ![p] = "m_loop"]
            /\ UNCHANGED <<invoking, delivered>>
  /\ UNCHANGED <<segVars, attached, m_isMonitoring, m_dataCallback,
                 m_monitorThread, newCb, terminated, args, success, buffer,
                 outs, path, fresh, maxPub, lastRead, reads, begun, stopped, corrupted, ckVars>>

\* Lines 499-502: the callback returns and the lock_guard unlocks.
M_Return(p) ==
  /\ pc[p] = "m_incb"
  /\ invoking' = [invoking EXCEPT ![p] = "none"]
  /\ m_callbackMutex' =
       (IF m_callbackMutex = p THEN "free" ELSE m_callbackMutex)
  /\ pc' = [pc EXCEPT ![p] = "m_loop"]
  /\ UNCHANGED <<segVars, attached, m_isMonitoring, m_dataCallback,
                 m_monitorThread, newCb, terminated, args, success, buffer,
                 outs, histVars, ckVars>>

\* -------------------------------------------- the consumer's other calls
\* Initialize(), lines 51-109, by the consumer: the mutex and the mapping
\* are opened by name and the header is written, without the gate.
Initialize(c) ==
  /\ pc[c] = "idle"
  /\ ~attached
  /\ attached' = TRUE
  /\ hdr' = InitHeader
  /\ Touch
  /\ UNCHANGED <<payload, gate, m_frameId, m_lastError, m_isMonitoring, m_dataCallback,
                 m_monitorThread, m_callbackMutex, newCb, invoking, terminated,
                 callVars, path, maxPub, lastRead, reads, begun, delivered, stopped, corrupted,
                 ckVars>>

\* SetError(), lines 212-220.
SetError(inst, message) ==
  /\ m_lastError' = [m_lastError EXCEPT ![inst] = message]
  /\ hdr' = [hdr EXCEPT !.Status = StError, !.ErrorMsg = message]

\* Initialize() called again by the producer's main thread, when CreateMutexA
\* returns NULL (lines 56-59): m_pHeader still points at the header.
InitializeFails ==
  /\ pc["main"] = "idle"
  /\ SetError("producer", "Failed to create mutex")
  /\ Touch
  /\ UNCHANGED <<payload, gate, m_frameId, monVars, callVars, path, maxPub, lastRead, reads,
                 begun, delivered, stopped, corrupted, ckVars>>

\* The consumer's process ends: its threads end where they stand, and a gate
\* one of them owns becomes abandoned.
ConsumerEnds ==
  /\ pc' = [t \in Threads |->
              IF InstanceOf(t) = "consumer" THEN "aborted" ELSE pc[t]]
  /\ gate' = (IF gate.owner \in Threads /\ InstanceOf(gate.owner) = "consumer"
               THEN [owner |-> "abandoned", leaked |-> FALSE] ELSE gate)

\* SetDataReceivedCallback(cb), line 466.
SC_Call(c, cb) ==
  /\ pc[c] = "idle"
  /\ newCb' = cb
  /\ pc' = [pc EXCEPT ![c] = "sc_lock"]
  /\ UNCHANGED <<segVars, attached, m_isMonitoring, m_dataCallback,
                 m_monitorThread, m_callbackMutex, invoking, terminated, args,
                 success, buffer, outs, histVars, ckVars>>

\* Line 468: the setter waits for m_callbackMutex; before it, a setter that
\* does not.
SetterEntersUnlocked == TRUE
SetterMayEnter == m_callbackMutex = "free"

SC_Lock(c) ==
  /\ pc[c] = "sc_lock"
  /\ SetterMayEnter
  /\ m_callbackMutex' = (IF m_callbackMutex = "free" THEN c ELSE m_callbackMutex)
  /\ pc' = [pc EXCEPT ![c] = "sc_set"]
  /\ UNCHANGED <<segVars, attached, m_isMonitoring, m_dataCallback,
                 m_monitorThread, newCb, invoking, terminated, args, success,
                 buffer, outs, histVars, ckVars>>

\* Lines 469-470: the assignment, the unlock, the return.
SC_Set(c) ==
  /\ pc[c] = "sc_set"
  /\ m_dataCallback' = newCb
  /\ newCb' = "none"
  /\ m_callbackMutex' = (IF m_callbackMutex = c THEN "free" ELSE m_callbackMutex)
  /\ pc' = [pc EXCEPT ![c] = "idle"]
  /\ UNCHANGED <<segVars, attached, m_isMonitoring, m_monitorThread, invoking,
                 terminated, args, success, buffer, outs, histVars, ckVars>>

\* StartMonitoring(), line 474: the test of m_isMonitoring.
SM_Check(c) ==
  /\ pc[c] = "idle"
  /\ stopped' = FALSE
  /\ pc' = [pc EXCEPT ![c] = IF m_isMonitoring THEN "idle" ELSE "sm_set"]
  /\ UNCHANGED <<segVars, monVars, args, success, buffer, outs, path,
                 fresh, maxPub, lastRead, reads, begun, delivered, corrupted, ckVars>>

\* Line 475.
SM_Set(c) ==
  /\ pc[c] = "sm_set"
  /\ m_isMonitoring' = TRUE
  /\ pc' = [pc EXCEPT ![c] = "sm_spawn"]
  /\ UNCHANGED <<segVars, attached, m_dataCallback, m_monitorThread,
                 m_callbackMutex, newCb, invoking, terminated, args, success,
                 buffer, outs, histVars, ckVars>>

\* Line 476: the new thread starts (lines 492-493 are its locals), then the
\* move assignment, which calls std::terminate when m_monitorThread is
\* joinable: every thread of the consumer's process ends.
SM_Spawn(c) ==
  /\ pc[c] = "sm_spawn"
  /\ LET p == IF pc["mon1"] = "unborn" THEN "mon1" ELSE "mon2" IN
       /\ pc[p] = "unborn"
       /\ buffer' = [buffer EXCEPT ![p] = <<>>]
       /\ outs' = [outs EXCEPT ![p] = NoOuts]
       /\ success' = [success EXCEPT ![p] = FALSE]
       /\ IF m_monitorThread # "none"
            THEN /\ terminated' = TRUE
                 /\ ConsumerEnds
                 /\ UNCHANGED m_monitorThread
            ELSE /\ m_monitorThread' = p
                 /\ pc' = [pc EXCEPT ![c] = "idle", ![p] = "m_loop"]
                 /\ UNCHANGED <<terminated, gate>>
  /\ UNCHANGED <<hdr, payload, m_frameId, m_lastError, attached,
                 m_isMonitoring, m_dataCallback, m_callbackMutex, newCb,
                 invoking, args, histVars, ckVars>>

\* StopMonitoring(), line 482: the test of m_isMonitoring.
ST_Check(c) ==
  /\ pc[c] = "idle"
  /\ pc' = [pc EXCEPT ![c] = IF m_isMonitoring THEN "st_clear" ELSE "idle"]
  /\ stopped' = IF m_isMonitoring THEN stopped ELSE TRUE
  /\ UNCHANGED <<segVars, monVars, args, success, buffer, outs, path,
                 fresh, maxPub, lastRead, reads, begun, delivered, corrupted, ckVars>>

\* Line 483.
ST_Clear(c) ==
  /\ pc[c] = "st_clear"
  /\ m_isMonitoring' = FALSE
  /\ pc' = [pc EXCEPT ![c] = "st_join"]
  /\ UNCHANGED <<segVars, attached, m_dataCallback, m_monitorThread,
                 m_callbackMutex, newCb, invoking, terminated, args, success,
                 buffer, outs, histVars, ckVars>>

\* join() returns when the thread has left MonitorThreadProc; before it, a
\* stop that does not wait.
JoinSkipped(h) == TRUE
JoinDone(h) == pc[h] = "exited"

\* Lines 484-487: join when joinable, then return.
ST_Join(c) ==
  /\ pc[c] = "st_join"
  /\ IF m_monitorThread = "none"
       THEN pc' = [pc EXCEPT ![c] = "idle"] /\ UNCHANGED m_monitorThread
       ELSE /\ JoinDone(m_monitorThread)
            /\ pc' = [pc EXCEPT ![c] = "idle",
                                ![m_monitorThread] =
                                   IF @ = "exited" THEN "unborn" ELSE @]
            /\ m_monitorThread' = "none"
  /\ stopped' = TRUE
  /\ UNCHANGED <<segVars, attached, m_isMonitoring, m_dataCallback,
                 m_callbackMutex, newCb, invoking, terminated, args, success,
                 buffer, outs, path, fresh, maxPub, lastRead, reads, begun, delivered, corrupted,
                 ckVars>>

\* ------------------------------------------------------- the environment
\* The consumer's process is ended while it runs (std::terminate, a crash in
\* the callback, a kill).
ConsumerDies ==
  /\ attached
  /\ ~terminated
  /\ terminated' = TRUE
  /\ ConsumerEnds
  /\ UNCHANGED <<hdr, payload, m_frameId, m_lastError, attached,
                 m_isMonitoring, m_dataCallback, m_monitorThread,
                 m_callbackMutex, newCb, invoking, args, success, buffer, outs,
                 histVars, ckVars>>

\* The producer's process is ended while it runs: its thread ends where it
\* stands, and a gate it owns becomes abandoned.
ProducerDies ==
  /\ pc["main"] # "aborted"
  /\ pc' = [pc EXCEPT !["main"] = "aborted"]
  /\ gate' = (IF gate.owner = "main"
               THEN [owner |-> "abandoned", leaked |-> FALSE] ELSE gate)
  /\ UNCHANGED <<hdr, payload, m_frameId, m_lastError, monVars, args,
                 success, buffer, outs, histVars, ckVars>>

\* One byte of the pending frame is changed in the segment by something
\* other than this program.
Corrupt(i, b) ==
  /\ corrupted < MaxCorrupt
  /\ hdr.Status = StReady
  /\ i \in 1..hdr.DataSize
  /\ b # payload[i]
  /\ payload' = [payload EXCEPT ![i] = b]
  /\ corrupted' = corrupted + 1
  /\ Touch
  /\ UNCHANGED <<hdr, gate, m_frameId, m_lastError, monVars, callVars, path, maxPub, lastRead, reads, begun,
                 delivered, stopped, ckVars>>

\* The header's magic number is overwritten in the segment by something
\* other than this program.
CorruptMagic ==
  /\ corrupted < MaxCorrupt
  /\ hdr.Magic = MAGIC
  /\ hdr' = [hdr EXCEPT !.Magic = 0]
  /\ corrupted' = corrupted + 1
  /\ Touch
  /\ UNCHANGED <<payload, gate, m_frameId, m_lastError, monVars, callVars,
                 path, maxPub, lastRead, reads, begun, delivered, stopped, ckVars>>

\* --------------------------------------------------------- specifications
\* WriteData calls with arguments from the given sets; an argument the type
\* does not use keeps its default.
WriteDataCalls(Types, Ws, Hs, Chs) ==
  \E type \in Types, w \in Ws, h \in Hs :
    \E ch \in (IF type = IMAGE THEN Chs ELSE {DefaultChannels}),
       dims \in (IF type = POINTCLOUD THEN DimensionVals
                 ELSE {DefaultDimensions}) :
      \E data \in CallerData(ShapeSize(type, w, h, ch)) :
        WD_Call(type, w, h, ch, dims, data)

HeightMapCalls(Ws, Hs, Ss) ==
  \E w \in Ws, h \in Hs, xSpacing \in Ss, ySpacing \in Ss :
    \E data \in CallerData(ShapeSize(HEIGHTMAP, w, h, 0)) :
      HM_Call(w, h, xSpacing, ySpacing, data)

WriteSteps ==
  \/ WD_Wait \/ WD_Timeout \/ WD_Begin \/ WD_Copy \/ WD_Release
  \/ HM_Wait \/ HM_Timeout \/ HM_Begin \/ HM_Copy \/ HM_Release

ClearSteps == CL_Call \/ CL_Wait \/ CL_Timeout \/ CL_Body \/ CL_Release

PollerSteps ==
  \E p \in Pollers : M_Loop(p) \/ M_Lock(p) \/ M_Check(p) \/ M_Return(p)

CallbackSteps ==
  \/ \E cb \in Callbacks : SC_Call("ctl", cb)
  \/ SC_Lock("ctl") \/ SC_Set("ctl")

MonitorSteps(c) ==
  \/ SM_Check(c) \/ SM_Set(c) \/ SM_Spawn(c)
  \/ ST_Check(c) \/ ST_Clear(c) \/ ST_Join(c)

CorruptSteps == \E i \in 1..Capacity, b \in Bytes : Corrupt(i, b)

PollerReads ==
  \E p \in Pollers : RD_Wait(p) \/ RD_Timeout(p) \/ RD_Body(p) \/ RD_Release(p)

MainReads ==
  RD_Call \/ RD_Wait("main") \/ RD_Body("main") \/ RD_Release("main")

\* Producer and consumer, each with its main thread, and the polling thread:
\* the consumer attaches, registers callbacks, starts and stops the polling
\* while the producer writes one-byte images and clears.
Next ==
  \/ WriteDataCalls(FewTypes, FewWidths, FewHeights, {DefaultChannels})
  \/ WD_Wait \/ WD_Timeout \/ WD_Begin \/ WD_Copy \/ WD_Release
  \/ ClearSteps \/ ReturnFalse \/ PollerReads \/ PollerSteps
  \/ Initialize("ctl") \/ CallbackSteps \/ MonitorSteps("ctl")

Spec == Init /\ [][Next]_vars

\* The producer's main thread alone: writes of every type and shape, and
\* reads.
NextSeq ==
  \/ WriteDataCalls(AllTypes, DimVals, DimVals, ChannelVals)
  \/ HeightMapCalls(DimVals, DimVals, SpacingVals)
  \/ WD_Wait \/ WD_Begin \/ WD_Copy \/ WD_Release
  \/ HM_Wait \/ HM_Begin \/ HM_Copy \/ HM_Release
  \/ MainReads \/ ReturnFalse

SpecSeq == Init /\ [][NextSeq]_vars

\* The producer's main thread alone, with what goes wrong around it: a
\* failing second Initialize(), bytes changed from outside, and ClearMemory.
NextFault ==
  \/ WriteDataCalls(FewTypes, FewWidths, FewHeights, ChannelVals)
  \/ HeightMapCalls(FewWidths, FewHeights, FewSpacings)
  \/ WD_Wait \/ WD_Begin \/ WD_Copy \/ WD_Release
  \/ HM_Wait \/ HM_Begin \/ HM_Copy \/ HM_Release
  \/ CL_Call \/ CL_Wait \/ CL_Body \/ CL_Release
  \/ MainReads \/ ReturnFalse \/ InitializeFails \/ CorruptSteps
  \/ CorruptMagic

SpecFault == Init /\ [][NextFault]_vars

\* The demo's order (ShareMemoryCPP.cpp, lines 113-152): before the first
\* write both instances are initialized, the consumer's callback is set and
\* its polling thread is started.
InitAttached ==
  /\ attached = TRUE
  /\ hdr = InitHeader
  /\ payload = Fill(Capacity, 0)
  /\ gate = GateFree
  /\ m_frameId = 0
  /\ m_lastError = [i \in Instances |-> ""]
  /\ m_isMonitoring = TRUE
  /\ m_dataCallback = "cbA"
  /\ m_monitorThread = "mon1"
  /\ m_callbackMutex = "free"
  /\ pc = [t \in Threads |-> IF t = "mon1" THEN "m_loop"
                            ELSE IF t \in Pollers THEN "unborn" ELSE "idle"]
  /\ args = NoArgs
  /\ success = [t \in Callers |-> FALSE]
  /\ buffer = [t \in Callers |-> <<>>]
  /\ outs = [t \in Callers |-> NoOuts]
  /\ newCb = "none"
  /\ invoking = [p \in Pollers |-> "none"]
  /\ terminated = FALSE
  /\ path = [t \in Callers |-> "none"]
  /\ fresh = NoFrame
  /\ maxPub = 0
  /\ lastRead = 0
  /\ reads = 0
  /\ begun = 0
  /\ delivered = [p \in Pollers |-> 0]
  /\ stopped = FALSE
  /\ corrupted = 0
  /\ CkOff

\* One writer and the readers: writes that succeed and writes that fail (slot
\* occupied, too large, unknown type, gate timeout), reads by the producer's
\* main thread and by the consumer's polling thread, and a byte of a pending
\* frame changed from outside.
NextWR ==
  \/ WriteDataCalls(FewTypes, FewWidths, FewHeights, {DefaultChannels})
  \/ HeightMapCalls(FewWidths, FewHeights, FewSpacings)
  \/ WriteSteps \/ MainReads \/ RD_Timeout("main") \/ ReturnFalse
  \/ PollerReads \/ PollerSteps \/ CorruptSteps

SpecWR == InitAttached /\ [][NextWR]_vars

\* The same start, with ClearMemory, and with the consumer's process ending
\* at any moment: a thread of the producer that waits for a gate the dead
\* process owned gets WAIT_ABANDONED.
NextDie ==
  \/ WriteDataCalls(FewTypes, FewWidths, FewHeights, {DefaultChannels})
  \/ HeightMapCalls(FewWidths, FewHeights, FewSpacings)
  \/ WriteSteps \/ WD_Abandoned \/ HM_Abandoned
  \/ ClearSteps \/ CL_Abandoned
  \/ MainReads \/ RD_Timeout("main") \/ RD_Abandoned("main") \/ ReturnFalse
  \/ PollerReads \/ PollerSteps \/ ConsumerDies

SpecDie == InitAttached /\ [][NextDie]_vars

\* The same start, with the producer's process ending at any moment, in or
\* out of a write: the consumer's polling thread that waits for the gate the
\* dead process owned gets WAIT_ABANDONED. The consumer sets its callback
\* meanwhile.
NextOrphan ==
  \/ WriteDataCalls(FewTypes, FewWidths, FewHeights, {DefaultChannels})
  \/ WD_Wait \/ WD_Timeout \/ WD_Begin \/ WD_Copy \/ WD_Release \/ ReturnFalse
  \/ PollerReads \/ (\E p \in Pollers : RD_Abandoned(p)) \/ PollerSteps
  \/ CallbackSteps \/ ProducerDies

SpecOrphan == InitAttached /\ [][NextOrphan]_vars

\* The demo's main loop (ShareMemoryCPP.cpp, lines 159-209) beside the
\* running polling thread: the writer calls again after every write, so a
\* rejected write is retried; every call is one the slot can take. The
\* scheduling is fair: each thread keeps taking its steps, the callback
\* returns, and a thread waiting for the gate gets it before its 5000 ms run
\* out, the owners holding it for a few steps only.
LiveCalls ==
  \/ WriteDataCalls({IMAGE}, {1}, {1}, {DefaultChannels})
  \/ HeightMapCalls({1}, {1}, FewSpacings)

WriterRuns ==
  \/ WD_Begin \/ WD_Copy \/ WD_Release
  \/ HM_Begin \/ HM_Copy \/ HM_Release

WriterWaits == WD_Wait \/ HM_Wait

PollerRuns(p) ==
  \/ M_Loop(p) \/ RD_Body(p) \/ RD_Release(p)
  \/ M_Lock(p) \/ M_Check(p) \/ M_Return(p)

\* The writer has frames left to send and stands between two calls.
WriterPauses == pc["main"] = "idle" /\ begun < MaxFrames

NextLive ==
  \/ LiveCalls \/ WriterRuns \/ WriterWaits
  \/ \E p \in Pollers : PollerRuns(p) \/ RD_Wait(p)

Fairness ==
  /\ []<>(~WriterPauses)
  /\ WF_vars(WriterRuns)
  /\ SF_vars(WriterWaits)
  /\ \A p \in Pollers : WF_vars(PollerRuns(p)) /\ SF_vars(RD_Wait(p))

SpecLive == InitAttached /\ [][NextLive]_vars /\ Fairness

\* Two threads of the consumer's process calling StartMonitoring and
\* StopMonitoring on the one instance.
NextCtl2 ==
  \/ \E c \in Controllers : MonitorSteps(c)
  \/ \E p \in Pollers : M_Loop(p)

SpecCtl2 == Init /\ [][NextCtl2]_vars

\* ------------------------------------------- the checksum specification
\* Payloads of 1..MaxCkLen bytes; from seven bytes of 255 on, the hash passes
\* 2^32 and wraps.
CkBytes == {0, 255}
CkReplacements == {0, 1, 127, 128, 254, 255}
CkPayloads == UNION {[1..n -> CkBytes] : n \in 1..MaxCkLen}

InitCk ==
  /\ InitRun
  /\ ckData \in CkPayloads
  /\ ckStored = <<0, 0>>
  /\ ckPhase = "new"

\* Line 162: the writer stores the checksum of the bytes it copied.
CkStore ==
  /\ ckPhase = "new"
  /\ ckStored' = CalculateChecksum(ckData)
  /\ ckPhase' = "stored"
  /\ UNCHANGED <<segVars, monVars, callVars, histVars, ckData>>

\* One byte of the stored payload is replaced by a different one.
CkMutate(i, b) ==
  /\ ckPhase = "stored"
  /\ i \in 1..Len(ckData)
  /\ b # ckData[i]
  /\ ckData' = [ckData EXCEPT ![i] = b]
  /\ ckPhase' = "mutated"
  /\ UNCHANGED <<segVars, monVars, callVars, histVars, ckStored>>

\* Lines 423-424: the reader computes the checksum of what it copied and
\* compares it with the stored one.
CkCompare ==
  /\ ckPhase \in {"stored", "mutated"}
  /\ ckPhase' = (IF CalculateChecksum(ckData) = ckStored
                  THEN (IF ckPhase = "stored" THEN "same_ok" ELSE "mutated_ok")
                  ELSE (IF ckPhase = "stored" THEN "same_bad" ELSE "mutated_bad"))
  /\ UNCHANGED <<segVars, monVars, callVars, histVars, ckData, ckStored>>

NextCk ==
  \/ CkStore \/ CkCompare
  \/ \E i \in 1..MaxCkLen, b \in CkReplacements : CkMutate(i, b)

SpecCk == InitCk /\ [][NextCk]_vars

\* ------------------------------------------------------------ properties
\* C1: round trip. When WriteData has just published a frame whose shape
\* stands for at most Capacity bytes and the next step on the segment is the
\* writer's own TryReadData, that read returns true, its buffer is the
\* written payload byte for byte and in length, dataType, width and height
\* are the arguments of the write, and Status is Empty afterwards.
C1_RoundTrip ==
  [][(/\ pc["main"] = "rd_body"
      /\ pc'["main"] = "rd_rel"
      /\ fresh.valid
      /\ fresh.dataLen <= Capacity)
     => (/\ success'["main"]
         /\ Len(buffer'["main"]) = fresh.dataLen
         /\ buffer'["main"] = fresh.data
         /\ outs'["main"] = [dataType |-> fresh.dataType,
                             width |-> fresh.width,
                             height |-> fresh.height]
         /\ hdr'.Status = StEmpty)]_vars

\* C2: from the occupancy test of a write (WriteData or WriteHeightMapData)
\* that finds Status other than Empty until that call has returned, no step
\* of any thread changes the header, the payload or the writer's frame
\* counter, and the value the call returns is false.
C2_OccupiedWriteFails ==
  [][((\/ pc["main"] \in {"wd_begin", "hm_begin"} /\ hdr.Status # StEmpty
       \/ pc["main"] \in {"wd_rel", "hm_rel"} /\ path["main"] = "occupied")
      /\ corrupted' = corrupted)
     => (/\ hdr' = hdr
         /\ payload' = payload
         /\ m_frameId' = m_frameId
         /\ ~success'["main"]
         /\ pc["main"] \in {"wd_begin", "hm_begin"}
              => pc'["main"] \in {pc["main"], "wd_rel", "hm_rel"})]_vars

\* A write is about to return false for a pending Ready frame, which is as
\* its writer left it.
C2_Witness ==
  /\ pc["main"] \in {"wd_rel", "hm_rel"}
  /\ path["main"] = "occupied"
  /\ hdr.Status = StReady
  /\ hdr.FrameId = m_frameId
  /\ corrupted = 0

\* C3: the FrameId of every frame that becomes Ready is greater than the
\* FrameId of every frame that became Ready before it, and the writer's
\* counter changes only in a write that passed the occupancy test, by
\* growing.
C3_FrameIdIncreases ==
  [][/\ (hdr.Status # StReady /\ hdr'.Status = StReady)
          => hdr'.FrameId > maxPub
     /\ m_frameId' # m_frameId
          => (/\ pc["main"] \in {"wd_begin", "hm_begin"}
              /\ hdr.Status = StEmpty
              /\ m_frameId' > m_frameId)
     /\ (hdr'.FrameId # hdr.FrameId) => hdr'.FrameId = m_frameId']_vars

\* A second frame was published after failed writes and reads.
C3_Witness ==
  /\ pc["main"] \in {"wd_rel", "hm_rel"}
  /\ path["main"] = "written"
  /\ hdr.Status = StReady
  /\ hdr.FrameId >= 2
  /\ maxPub = hdr.FrameId

\* C4: a read that finds the checksum of a changed payload different from
\* the stored one reports it: what the call hands back to its caller, the
\* return value, the output arguments dataType, width and height, and the
\* instance's last error, is not what a read of a slot that is not Ready
\* hands back (false, the outputs and the last error as they were).
C4_MismatchReported ==
  [][\A t \in Callers :
       (pc[t] = "rd_body" /\ pc'[t] = "rd_rel" /\ path'[t] = "mismatch")
       => <<success'[t], outs'[t], m_lastError'[InstanceOf(t)]>>
            # <<FALSE, outs[t], m_lastError[InstanceOf(t)]>>]_vars

\* C5: a payload in which one byte was replaced by a different byte never
\* passes the reader's comparison with the checksum stored for the original,
\* and an unchanged payload always passes it.
C5_MutationDetected == ckPhase \notin {"mutated_ok", "same_bad"}

\* A changed payload whose hash wrapped past 2^32 was compared and rejected.
C5_Witness ==
  /\ ckPhase = "mutated_bad"
  /\ Len(ckData) >= 7
  /\ ckData[1] = 255
  /\ ckData[2] = 255

\* C6: the step of ClearMemory that follows the acquisition of the gate
\* leaves Magic = MAGIC, Status = Empty and every other header field zero,
\* leaves the payload bytes as they were, and makes the call return true,
\* whatever the header held before.
C6_ClearResets ==
  [][(pc["main"] = "cl_body" /\ pc'["main"] = "cl_rel")
     => (/\ hdr'.Magic = MAGIC
         /\ hdr'.Status = StEmpty
         /\ hdr'.FrameId = 0
         /\ hdr'.DataSize = 0
         /\ hdr'.Checksum = <<0, 0>>
         /\ hdr'.DataType = 0 /\ hdr'.Width = 0 /\ hdr'.Height = 0
         /\ hdr'.Reserved = 0
         /\ payload' = payload
         /\ success'["main"])]_vars

\* ClearMemory has reset a header that was in the Error state after frames
\* had been written, and the payload still holds written bytes.
C6_Witness ==
  /\ pc["main"] = "cl_rel"
  /\ success["main"]
  /\ hdr.Status = StEmpty
  /\ hdr.FrameId = 0
  /\ maxPub >= 1
  /\ m_lastError["producer"] # ""
  /\ \E i \in 1..Capacity : payload[i] # 0

\* C7: from the return of StopMonitoring until the next call of
\* StartMonitoring, no polling thread of the instance is running a callback
\* or is about to: every polling thread has left MonitorThreadProc.
C7_NoCallbackAfterStop ==
  stopped => \A p \in Pollers : /\ invoking[p] = "none"
                                 /\ pc[p] \in {"unborn", "exited"}

\* StopMonitoring has returned after a polling thread of this run delivered
\* a frame to a callback.
C7_Witness ==
  /\ stopped
  /\ pc["ctl"] = "idle"
  /\ ~m_isMonitoring
  /\ m_dataCallback # "none"
  /\ \E p \in Pollers : delivered[p] >= 1

\* C8: at most one polling thread of the instance exists at any time, and
\* the handle of a running polling thread is never assigned over.
C8_OnePoller ==
  /\ ~terminated
  /\ Cardinality({p \in Pollers : pc[p] \in {"m_loop", "rd_wait", "rd_body",
                                              "rd_rel", "m_lock", "m_check",
                                              "m_incb"}}) <= 1

\* C9: the callback a polling thread is running is the registered one, the
\* thread holds m_callbackMutex for as long as it runs it, no setter is
\* between its lock and its unlock meanwhile, and no frame is handed to a
\* callback twice.
C9_CallbackAtomic ==
  \A p \in Pollers :
    /\ pc[p] = "m_incb"
         => (/\ invoking[p] = m_dataCallback
             /\ m_callbackMutex = p
             /\ \A c \in Controllers : pc[c] # "sc_set")
    /\ invoking[p] # "none" => pc[p] = "m_incb"
    /\ delivered[p] <= 1

\* A setter with a different callback is waiting while the registered one
\* runs.
C9_Witness ==
  \E p \in Pollers :
    /\ pc[p] = "m_incb"
    /\ pc["ctl"] = "sc_lock"
    /\ newCb \notin {"none", invoking[p]}

\* C10: a write call that goes on to wait for the gate has a known data type
\* and a shape that stands for at most Capacity bytes; every other write
\* call has returned false before the wait.
C10_OversizedRejected ==
  pc["main"] \in {"wd_wait", "wd_begin", "wd_copy", "wd_rel",
                  "hm_wait", "hm_begin", "hm_copy", "hm_rel"}
    => (/\ args.dataType \in {IMAGE, POINTCLOUD, HEIGHTMAP}
        /\ args.dataLen <= Capacity)

\* C11: a step in which a Write, Read or Clear call gives up its wait for
\* the gate (timeout) leaves the header, the payload, the frame counter, the
\* caller's buffer and output arguments as they were, and the
\* call returns false; the thread goes on (to its return, or to the next
\* round of the polling loop).
C11_TimeoutChangesNothing ==
  [][\A t \in Callers :
       (/\ pc[t] \in {"wd_wait", "hm_wait", "cl_wait", "rd_wait"}
        /\ pc'[t] \notin {pc[t], "wd_begin", "hm_begin", "cl_body", "rd_body",
                          "aborted"})
       => (/\ hdr' = hdr
           /\ payload' = payload
           /\ m_frameId' = m_frameId
           /\ buffer'[t] = buffer[t]
           /\ outs'[t] = outs[t]
           /\ ~success'[t]
           /\ pc'[t] \in {"ret", "m_loop"})]_vars

\* A write that had given up its wait was made again, found the gate free
\* and the slot Empty, and is publishing its frame.
C11_Witness ==
  /\ pc["main"] = "wd_copy"
  /\ path["main"] = "retry"
  /\ gate.owner = "main"
  /\ hdr.Status = StWriting

\* C12: when a write has published its frame, the header holds the metadata
\* supplied with that write: width and height, the channel count of an image
\* in Reserved, and the grid spacing of a height map in the one metadata
\* field that width, height and type leave over (not zero, and not the value
\* of an earlier frame).
C12_MetadataPreserved ==
  (pc["main"] \in {"wd_rel", "hm_rel"} /\ success["main"])
    => (/\ hdr.Status = StReady
        /\ hdr.Width = args.width
        /\ hdr.Height = args.height
        /\ (args.op = "WriteData" /\ args.dataType = IMAGE
              => hdr.Reserved = args.channels)
        /\ (args.op = "WriteHeightMapData"
              => hdr.Reserved \in {args.xSpacing, args.ySpacing}))

\* C13: when a Write, Read or Clear call is about to return false because
\* the slot was occupied, the payload was too large, the wait timed out, the
\* magic was invalid or the checksum did not match, the last error of the
\* instance is the message of that failure.
C13_LastErrorIsFailure ==
  \A t \in Callers :
    (/\ pc[t] \in {"ret", "wd_rel", "hm_rel", "cl_rel", "rd_rel"}
     /\ ~success[t]
     /\ FailureMessages(path[t]) # {})
    => m_lastError[InstanceOf(t)] \in FailureMessages(path[t])

\* C14: every step that changes a header field or a payload byte is taken
\* by a thread that holds the gate and stands inside the critical section of
\* its Write, Read or Clear call.
C14_MutationUnderGate ==
  [][(hdr' # hdr \/ payload' # payload)
       => \E t \in Callers :
            /\ gate.owner = t
            /\ pc[t] \in {"wd_begin", "wd_copy", "hm_begin", "hm_copy",
                          "cl_body", "rd_body"}
            /\ pc'[t] # pc[t]]_vars

\* C15: a thread that is not inside a Write, Read or Clear call does not own
\* the gate: every call has given the gate back when it returns, whatever
\* the result of its wait was.
C15_GateReleasedOnReturn ==
  \A t \in Callers :
    pc[t] \notin {"wd_wait", "wd_begin", "wd_copy", "wd_rel",
                  "hm_wait", "hm_begin", "hm_copy", "hm_rel",
                  "cl_wait", "cl_body", "cl_rel",
                  "rd_wait", "rd_body", "rd_rel"}
      => gate.owner # t

\* C16: Status leaves Ready only by a successful read (to Empty) or by
\* ClearMemory, and leaves Empty only by a write that starts (to Writing).
C16_NoSilentDrop ==
  [][/\ (hdr.Status = StReady /\ hdr'.Status # StReady)
          => \/ \E t \in Callers :
                  /\ pc[t] = "rd_body"
                  /\ pc'[t] = "rd_rel"
                  /\ success'[t]
                  /\ hdr'.Status = StEmpty
             \/ pc["main"] = "cl_body" /\ pc'["main"] = "cl_rel"
     /\ (hdr.Status = StEmpty /\ hdr'.Status # StEmpty)
          => /\ pc["main"] \in {"wd_begin", "hm_begin"}
             /\ pc'["main"] \in {"wd_copy", "hm_copy"}
             /\ hdr'.Status = StWriting]_vars

\* C17: Status is Writing only while a thread holds the gate; and while
\* Status is Ready, DataSize, Checksum, FrameId and the payload are those of
\* one completed write: the checksum is that of the first DataSize payload
\* bytes and FrameId is the writer's frame counter.
C17_WritingTransient ==
  /\ (gate.owner = "free" => hdr.Status # StWriting)
  /\ (hdr.Status = StReady
        => /\ hdr.DataSize <= Capacity
           /\ hdr.Checksum = CalculateChecksum(SubSeq(payload, 1, hdr.DataSize))
           /\ hdr.FrameId = m_frameId)

\* C18: the step of TryReadData inside the gate leaves Magic, DataSize,
\* Checksum, FrameId, the metadata fields and the payload as they were; it
\* changes Status only when the read succeeds, from Ready to Empty; and when
\* Status is not Ready the call fails and the caller's buffer and output
\* arguments are as they were. The wait and the release change nothing in
\* the segment.
C18_ReadFrameEffect ==
  [][\A t \in Callers :
       /\ (pc[t] = "rd_body" /\ pc'[t] = "rd_rel")
            => /\ payload' = payload
               /\ [hdr' EXCEPT !.Status = hdr.Status] = hdr
               /\ hdr'.Status # hdr.Status
                    => /\ success'[t]
                       /\ hdr.Status = StReady
                       /\ hdr'.Status = StEmpty
               /\ hdr.Status # StReady
                    => /\ ~success'[t]
                       /\ buffer'[t] = buffer[t]
                       /\ outs'[t] = outs[t]
       /\ (pc[t] \in {"rd_wait", "rd_rel"} /\ pc'[t] # pc[t])
            => hdr' = hdr /\ payload' = payload]_vars

\* A read found the header in the Error state with a frame's size still in
\* it, and returns false with an empty buffer.
C18_Witness ==
  /\ pc["main"] = "rd_rel"
  /\ path["main"] = "notready"
  /\ hdr.Status = StError
  /\ hdr.DataSize > 0
  /\ buffer["main"] = <<>>
  /\ ~success["main"]

\* Lines 409-424: the header a read takes to the mismatch branch, a pending
\* frame whose stored checksum is not that of its payload bytes.
ChecksumMismatch ==
  /\ hdr.Magic = MAGIC
  /\ hdr.Status = StReady
  /\ hdr.DataSize <= Capacity
  /\ CalculateChecksum(SubSeq(payload, 1, hdr.DataSize)) # hdr.Checksum

\* C19: a read that finds a checksum mismatch returns false and leaves the
\* header (Status Ready) and the payload as they were; while the pending
\* frame mismatches, every read fails with the mismatch and every write is
\* rejected as occupied without changing the header; no step of a Write,
\* Read or Clear call ends that condition except the body of ClearMemory;
\* and a write that finds the slot Empty goes on to publish its frame.
C19_MismatchStalls ==
  [][/\ \A t \in Callers :
          (pc[t] = "rd_body" /\ pc'[t] = "rd_rel")
            => /\ path'[t] = "mismatch"
                    => (hdr' = hdr /\ payload' = payload /\ ~success'[t]
                        /\ hdr.Status = StReady)
               /\ ChecksumMismatch => path'[t] = "mismatch"
     /\ (ChecksumMismatch /\ pc["main"] \in {"wd_begin", "hm_begin"}
          /\ pc'["main"] # pc["main"])
          => /\ path'["main"] = "occupied"
             /\ pc'["main"] \in {"wd_rel", "hm_rel"}
             /\ ~success'["main"]
             /\ hdr' = hdr /\ payload' = payload
     /\ (ChecksumMismatch /\ ~ChecksumMismatch' /\ pc' # pc)
          => pc["main"] = "cl_body" /\ pc'["main"] = "cl_rel"
     /\ (hdr.Status = StEmpty /\ pc["main"] \in {"wd_begin", "hm_begin"}
          /\ pc'["main"] # pc["main"])
          => pc'["main"] \in {"wd_copy", "hm_copy"} /\ hdr'.Status = StWriting
     /\ (pc["main"] \in {"wd_copy", "hm_copy"} /\ pc'["main"] # pc["main"])
          => success'["main"] /\ hdr'.Status = StReady]_vars

\* A read has just found the mismatch: it is about to return false, and the
\* frame is still pending with its corrupted payload.
C19_Witness ==
  /\ pc["main"] = "rd_rel"
  /\ path["main"] = "mismatch"
  /\ ~success["main"]
  /\ corrupted > 0
  /\ ChecksumMismatch

\* C20: while Status is Ready, DataSize is the size the header's type and
\* shape stand for, not wrapped: Width x Height x channels for an image,
\* Width x Height x 4 for a point cloud and for a height map.
C20_DataSizeMatchesShape ==
  hdr.Status = StReady
    => hdr.DataSize = ShapeSize(hdr.DataType, hdr.Width, hdr.Height,
                                hdr.Reserved)

\* C21: while a callback invocation of a polling thread is in progress, that
\* thread does not own the gate, and the buffer and the metadata the callback
\* was given stay as they are whatever the other threads do.
C21_CallbackOutsideGate ==
  [][\A p \in Pollers :
       /\ invoking'[p] # "none" => gate'.owner # p
       /\ (invoking[p] # "none" /\ invoking'[p] # "none")
            => buffer'[p] = buffer[p] /\ outs'[p] = outs[p]]_vars

\* C22: in a run without ClearMemory, every successful read finds a frame
\* whose FrameId is greater than the FrameId the previous successful read
\* found, and that frame is the latest one published: a write came between
\* the two reads. The read finds Status Ready and leaves it Empty.
C22_ReadsIncrease ==
  [][\A t \in Callers :
       (pc[t] = "rd_body" /\ pc'[t] = "rd_rel" /\ success'[t])
         => (/\ hdr.FrameId > lastRead
             /\ hdr.FrameId = maxPub
             /\ lastRead' = hdr.FrameId
             /\ hdr.Status = StReady
             /\ hdr'.Status = StEmpty)]_vars

\* The polling thread has read its second frame, after an earlier successful
\* read of the first.
C22_Witness ==
  \E p \in Pollers :
    /\ pc[p] = "rd_rel"
    /\ success[p]
    /\ lastRead = 2
    /\ hdr.FrameId = 2
    /\ hdr.Status = StEmpty
    /\ delivered[p] = 0

\* C23: with the producer's thread and the consumer's polling thread reading
\* the segment concurrently, a published frame is obtained by at most one
\* successful read, a frame read by the poller is passed to the callback at
\* most once, and no two threads are inside the gate-held section of
\* TryReadData at the same time.
C23_ReadOnce ==
  /\ reads <= 1
  /\ \A p \in Pollers : delivered[p] <= 1
  /\ \A t \in Callers : \A u \in Callers \ {t} :
       ~(pc[t] \in {"rd_body", "rd_rel"} /\ pc[u] \in {"rd_body", "rd_rel"})

\* The polling thread has obtained the pending frame while the producer's
\* thread, which called TryReadData for the same frame, waits for the gate.
C23_Witness ==
  \E p \in Pollers :
    /\ pc[p] = "rd_rel"
    /\ success[p]
    /\ reads = 1
    /\ pc["main"] = "rd_wait"
    /\ hdr.Status = StEmpty

\* C24: with a writer that calls again after a rejected write, one running
\* polling thread with a callback that returns, and fair scheduling, every
\* frame that becomes Ready is eventually the frame the polling thread passes
\* to the callback, the slot is eventually Empty again, and a write that was
\* rejected as occupied is eventually followed by a write that succeeds.
C24_FramesDelivered ==
  /\ \A k \in 1..MaxFrames :
       (hdr.Status = StReady /\ hdr.FrameId = k)
         ~> (\E p \in Pollers : invoking[p] # "none" /\ lastRead = k)
  /\ (hdr.Status = StReady) ~> (hdr.Status = StEmpty)
  /\ (pc["main"] \in {"wd_rel", "hm_rel"} /\ path["main"] = "occupied")
       ~> (pc["main"] \in {"wd_rel", "hm_rel"} /\ success["main"])

\* The callback is running on the second frame the writer published, and
\* the slot is Empty again.
C24_Witness ==
  \E p \in Pollers :
    /\ invoking[p] # "none"
    /\ lastRead = 2
    /\ hdr.Status = StEmpty
    /\ begun = 2

\* C25: no polling thread owns the gate and the callback lock at the same
\* time, no thread that holds the callback lock waits for the gate, and so no
\* thread waits for the callback lock of a thread that waits for its gate.
C25_LocksNotNested ==
  /\ \A p \in Pollers : ~(gate.owner = p /\ m_callbackMutex = p)
  /\ \A t \in Callers :
       m_callbackMutex = t
         => pc[t] \notin {"wd_wait", "hm_wait", "cl_wait", "rd_wait"}
  /\ \A t \in Threads : \A u \in Callers \ {t} :
       ~(/\ pc[t] \in {"m_lock", "sc_lock"}
         /\ m_callbackMutex = u
         /\ pc[u] \in {"wd_wait", "hm_wait", "cl_wait", "rd_wait"}
         /\ gate.owner = t)

\* C26: a successful read of the polling thread leaves Status Empty whether
\* a callback is registered or not; after it the thread calls the callback
\* that is registered at the moment it holds the callback lock, and when none
\* is registered it goes round its loop and the frame is passed to nobody.
C26_PollerDrains ==
  [][\A p \in Pollers :
       /\ (pc[p] = "rd_body" /\ pc'[p] = "rd_rel" /\ success'[p])
            => hdr'.Status = StEmpty
       /\ (pc[p] = "m_check" /\ pc'[p] # "m_check")
            => /\ m_callbackMutex = p
               /\ IF m_dataCallback = "none"
                    THEN /\ pc'[p] = "m_loop"
                         /\ invoking'[p] = "none"
                         /\ delivered'[p] = delivered[p]
                    ELSE /\ pc'[p] = "m_incb"
                         /\ invoking'[p] = m_dataCallback
       /\ (invoking[p] = "none" /\ invoking'[p] # "none")
            => pc[p] = "m_check" /\ m_dataCallback # "none"]_vars

\* The polling thread has read a frame and freed the slot, holds the callback
\* lock and finds no callback registered.
C26_Witness ==
  \E p \in Pollers :
    /\ pc[p] = "m_check"
    /\ m_dataCallback = "none"
    /\ m_callbackMutex = p
    /\ lastRead >= 1
    /\ reads = 1
    /\ hdr.Status = StEmpty

====
